---- MODULE Spec2Model ----
(***************************************************************************)
(* Model of seastar's allocation failure injector                          *)
(* (util/alloc_failure_injector.hh): the per-thread alloc_failure_injector *)
(* object, the disable_failure_guard scoped token, the on_alloc_point()    *)
(* hook, and the exhaustive-injection loop of the header's usage comment.  *)
(*                                                                         *)
(* The injector's counters are uint64_t.  The model keeps the modular      *)
(* arithmetic and scales the width down to CounterBits bits.  A counter    *)
(* that advances by one per hook call covers only a small prefix of the    *)
(* range during a run (MaxAllocCount); the argument of fail_after() is a   *)
(* caller's input and ranges over the whole width.                         *)
(***************************************************************************)
EXTENDS Integers, Sequences, FiniteSets, TLC

\* ---------------------------------------------------------------- bounds
CounterBits == 4
MaxAllocCount == 3
MaxDepth == 2
MaxPoints == 3
MaxPrior == 2
MaxCtxAllocCount == 2

\* ------------------------------------------------------- program constants
Modulus == 2 ^ CounterBits
\* std::numeric_limits<uint64_t>::max()
UINT64_MAX == Modulus - 1
Counts == 0 .. UINT64_MAX
\* Arguments given to fail_after(): the counts a run can reach, and the
\* counts at the top of the range, whose sum with _alloc_count overflows.
FailAfterCounts ==
    {c \in Counts : c <= MaxAllocCount + 1
                        \/ c >= UINT64_MAX - (MaxAllocCount + 1)}

\* The callbacks a test can install: the default (throws std::bad_alloc),
\* a recorder that returns at once, and a callback that runs further code
\* of the test (injector operations included) before it returns or throws.
Callbacks == {"bad_alloc", "recorder", "custom"}

VARIABLES
    inj,      \* the_alloc_failure_injector of this thread
    enabled,  \* SEASTAR_ENABLE_ALLOC_FAILURE_INJECTION defined in this build
    stack,    \* live scopes, innermost last: "guard" or "callback"
    hist,     \* history of the calls made (observation only)
    drv,      \* the exhaustive-injection loop of the usage comment
    ctx       \* the_alloc_failure_injector of each of two threads

vars == <<inj, enabled, stack, hist, drv, ctx>>

\* ------------------------------------------------- alloc_failure_injector
\* The thread_local object is zero-initialized before its default member
\* initializers run: _alloc_count = 0, _failed = false.
InjectorInit ==
    [alloc_count |-> 0,
     fail_at |-> UINT64_MAX,
     on_alloc_failure |-> "bad_alloc",
     failed |-> FALSE,
     suppressed |-> 0]

cancel_noop(s) == s

cancel_resets_callback(s) ==
    [s EXCEPT !.fail_at = UINT64_MAX, !.on_alloc_failure = "bad_alloc"]

cancel(s) == [s EXCEPT !.fail_at = UINT64_MAX]

fail_after_resets_count(s, count) ==
    [s EXCEPT !.alloc_count = 0, !.fail_at = count % Modulus,
              !.failed = FALSE]

fail_after_absolute(s, count) ==
    [s EXCEPT !.fail_at = count, !.failed = FALSE]

fail_after_keeps_failed(s, count) ==
    [s EXCEPT !.fail_at = (s.alloc_count + count) % Modulus]

fail_after(s, count) ==
    [s EXCEPT !.fail_at = (s.alloc_count + count) % Modulus,
              !.failed = FALSE]

set_alloc_failure_callback_ignored(s, cb) == s

set_alloc_failure_callback(s, cb) == [s EXCEPT !.on_alloc_failure = cb]

alloc_count(s) == s.alloc_count

failed(s) == s.failed

\* ++_alloc_count
count_alloc(s) == [s EXCEPT !.alloc_count = (@ + 1) % Modulus]

\* The test of on_alloc_point() that leads to the callback.
invokes_callback(s) == s.suppressed = 0 /\ s.alloc_count >= s.fail_at

on_alloc_point_ignores_suppressed(s, raises) ==
    IF s.alloc_count >= s.fail_at
    THEN IF raises
         THEN cancel([s EXCEPT !.failed = TRUE])
         ELSE count_alloc(cancel([s EXCEPT !.failed = TRUE]))
    ELSE count_alloc(s)

on_alloc_point_counts_twice(s, raises) ==
    IF s.suppressed # 0
    THEN s
    ELSE IF s.alloc_count >= s.fail_at
         THEN IF raises
              THEN cancel([s EXCEPT !.failed = TRUE])
              ELSE count_alloc(cancel([s EXCEPT !.failed = TRUE]))
         ELSE count_alloc(count_alloc(s))

on_alloc_point_no_failed(s, raises) ==
    IF s.suppressed # 0
    THEN s
    ELSE IF s.alloc_count >= s.fail_at
         THEN IF raises THEN cancel(s) ELSE count_alloc(cancel(s))
         ELSE count_alloc(s)

on_alloc_point_no_cancel(s, raises) ==
    IF s.suppressed # 0
    THEN s
    ELSE IF s.alloc_count >= s.fail_at
         THEN IF raises
              THEN [s EXCEPT !.failed = TRUE]
              ELSE count_alloc([s EXCEPT !.failed = TRUE])
         ELSE count_alloc(s)

\* on_alloc_point(): the injector when the call is left.  raises: the
\* callback leaves by an exception (or is still running), so the increment
\* after it has not been executed.
on_alloc_point(s, raises) ==
    IF s.suppressed # 0
    THEN s
    ELSE IF s.alloc_count >= s.fail_at
         THEN IF raises
              THEN cancel([s EXCEPT !.failed = TRUE])
              ELSE count_alloc(cancel([s EXCEPT !.failed = TRUE]))
         ELSE count_alloc(s)

free_on_alloc_point_always(s, raises, en) == on_alloc_point(s, raises)

\* the free function on_alloc_point(): forwards to the thread's injector
\* when the feature is compiled in, and is empty otherwise
free_on_alloc_point(s, raises, en) ==
    IF en THEN on_alloc_point(s, raises) ELSE s

\* how on_alloc_point() is left when it invokes callback cb
ExitOf(cb) ==
    IF cb = "bad_alloc" THEN "raise"
    ELSE IF cb = "recorder" THEN "return"
    ELSE "in_callback"

\* --------------------------------------------------- disable_failure_guard
guard_ctor(s, en) ==
    IF en THEN [s EXCEPT !.suppressed = (@ + 1) % Modulus] ELSE s

guard_dtor_leaks(s, en) == s

guard_dtor(s, en) ==
    IF en THEN [s EXCEPT !.suppressed = (@ - 1) % Modulus] ELSE s

\* Stack unwinding through the n innermost scopes: the destructor of every
\* guard among them runs; a callback scope is left without the increment
\* of the on_alloc_point() call that invoked it.
RECURSIVE unwind(_, _, _, _)
unwind(s, st, n, en) ==
    IF n = 0 \/ st = <<>>
    THEN [inj |-> s, stack |-> st]
    ELSE unwind(IF st[Len(st)] = "guard" THEN guard_dtor(s, en) ELSE s,
                SubSeq(st, 1, Len(st) - 1), n - 1, en)

GuardsAlive == Cardinality({i \in 1 .. Len(stack) : stack[i] = "guard"})

\* a custom callback is running
InCallback == \E j \in 1 .. Len(stack) : stack[j] = "callback"

\* ----------------------------------------------------------------- history
HistInit ==
    [op |-> "init",      \* the last call
     fired |-> FALSE,    \* the last call invoked the failure callback
     exit |-> "return",  \* how the last call was left
     armed |-> FALSE,    \* fail_after() has been called
     k |-> 0,            \* argument of the most recent fail_after()
     calls |-> 0,        \* non-suppressed hook calls since then
     fires |-> 0,        \* callback invocations since then
     supp |-> FALSE,     \* a suppressed hook call was made since then
     wrapped |-> FALSE,  \* _alloc_count + count exceeded UINT64_MAX there
     inner |-> FALSE,    \* it was called from inside a running callback
     cancelled |-> FALSE, \* cancel() was called since then
     rearmed |-> FALSE,  \* it replaced a schedule that had not fired yet
     installed |-> "bad_alloc", \* the callback installed last
     via |-> "none"]     \* the last call was a hook call made this way

Op(name) ==
    [hist EXCEPT !.op = name, !.fired = FALSE, !.exit = "return",
                 !.via = "none"]

DrvIdle == [pc |-> "idle", i |-> 0, N |-> 0, pos |-> 0, hits |-> <<>>]

\* ------------------------------------------------------------ thread_local
Threads == {"t1", "t2"}

local_failure_injector_shared(t) == "t1"

\* local_failure_injector(): the instance a call made by thread t reaches;
\* the_alloc_failure_injector is thread_local, one instance per thread
local_failure_injector(t) == t

CtxInit ==
    [inj |-> [t \in Threads |-> InjectorInit],
     guards |-> [t \in Threads |-> 0],  \* live guards of each thread
     op |-> "init",    \* the last call
     by |-> "none",    \* the thread that made the last call
     hit |-> "none"]   \* the instance whose callback the last call invoked

TypeOK ==
    /\ inj.alloc_count \in Counts
    /\ inj.fail_at \in Counts
    /\ inj.suppressed \in Counts
    /\ inj.failed \in BOOLEAN
    /\ inj.on_alloc_failure \in Callbacks
    /\ Len(stack) <= MaxDepth

\* ------------------------------------------------------------------ actions
Init ==
    /\ inj = InjectorInit
    /\ enabled = TRUE
    /\ stack = <<>>
    /\ hist = HistInit
    /\ drv = DrvIdle
    /\ ctx = CtxInit

\* alloc_failure_injector::on_alloc_point(), called directly or through the
\* free function on_alloc_point() (a no-op when the feature is compiled out)
OnAllocPoint ==
    /\ inj.alloc_count < MaxAllocCount
    /\ \E via \in {"member", "free"} :
        LET reaches == via = "member" \/ enabled
            call(raises) ==
                IF via = "free"
                THEN free_on_alloc_point(inj, raises, enabled)
                ELSE on_alloc_point(inj, raises)
            fire == reaches /\ invokes_callback(inj)
            cb == inj.on_alloc_failure
            h == [Op("on_alloc_point") EXCEPT
                    !.via = via,
                    !.fired = fire,
                    !.calls = IF reaches /\ inj.suppressed = 0
                              THEN @ + 1 ELSE @,
                    !.supp = IF reaches /\ inj.suppressed # 0
                             THEN TRUE ELSE @,
                    !.fires = IF fire THEN @ + 1 ELSE @]
        IN  IF fire /\ cb = "bad_alloc"
            THEN \E n \in 0 .. Len(stack) :
                   LET u == unwind(call(TRUE), stack, n, enabled)
                   IN  /\ inj' = u.inj
                       /\ stack' = u.stack
                       /\ hist' = [h EXCEPT !.exit = "raise"]
            ELSE IF fire /\ cb = "custom"
            THEN /\ Len(stack) < MaxDepth
                 /\ inj' = call(TRUE)
                 /\ stack' = Append(stack, "callback")
                 /\ hist' = [h EXCEPT !.exit = "in_callback"]
            ELSE /\ inj' = call(FALSE)
                 /\ stack' = stack
                 /\ hist' = h
    /\ UNCHANGED <<ctx, enabled, drv>>

\* a custom callback returns: on_alloc_point() goes on to ++_alloc_count
CallbackReturn ==
    /\ stack # <<>>
    /\ stack[Len(stack)] = "callback"
    /\ inj' = count_alloc(inj)
    /\ stack' = SubSeq(stack, 1, Len(stack) - 1)
    /\ hist' = Op("callback_return")
    /\ UNCHANGED <<ctx, enabled, drv>>

FailAfter ==
    /\ \E count \in FailAfterCounts :
        /\ inj' = fail_after(inj, count)
        /\ hist' = [Op("fail_after") EXCEPT
                      !.armed = TRUE, !.k = count, !.calls = 0, !.fires = 0,
                      !.supp = FALSE, !.cancelled = FALSE,
                      !.wrapped = (inj.alloc_count + count >= Modulus),
                      !.inner = InCallback,
                      !.rearmed = (hist.armed /\ hist.fires = 0
                                      /\ ~hist.cancelled)]
    /\ UNCHANGED <<ctx, enabled, stack, drv>>

Cancel ==
    /\ inj' = cancel(inj)
    /\ hist' = [Op("cancel") EXCEPT !.cancelled = TRUE]
    /\ UNCHANGED <<ctx, enabled, stack, drv>>

SetAllocFailureCallback ==
    /\ \E cb \in Callbacks :
        /\ inj' = set_alloc_failure_callback(inj, cb)
        /\ hist' = [Op("set_alloc_failure_callback") EXCEPT
                      !.installed = cb]
    /\ UNCHANGED <<ctx, enabled, stack, drv>>

\* disable_failure_guard constructed in the current scope
GuardAcquire ==
    /\ Len(stack) < MaxDepth
    /\ inj' = guard_ctor(inj, enabled)
    /\ stack' = Append(stack, "guard")
    /\ hist' = Op("guard_acquire")
    /\ UNCHANGED <<ctx, enabled, drv>>

\* the innermost guard's scope is left normally
GuardRelease ==
    /\ stack # <<>>
    /\ stack[Len(stack)] = "guard"
    /\ inj' = guard_dtor(inj, enabled)
    /\ stack' = SubSeq(stack, 1, Len(stack) - 1)
    /\ hist' = Op("guard_release")
    /\ UNCHANGED <<ctx, enabled, drv>>

\* an exception of the code under test (or of a custom callback)
\* propagates through the n innermost scopes
Throw ==
    /\ \E n \in 1 .. Len(stack) :
        LET u == unwind(inj, stack, n, enabled)
        IN  /\ inj' = u.inj
            /\ stack' = u.stack
    /\ hist' = [Op("throw") EXCEPT !.exit = "raise"]
    /\ UNCHANGED <<ctx, enabled, drv>>

Next ==
    \/ OnAllocPoint
    \/ CallbackReturn
    \/ FailAfter
    \/ Cancel
    \/ SetAllocFailureCallback
    \/ GuardAcquire
    \/ GuardRelease
    \/ Throw

Spec == Init /\ [][Next]_vars

\* a build without SEASTAR_ENABLE_ALLOC_FAILURE_INJECTION
InitCompiledOut ==
    /\ inj = InjectorInit
    /\ enabled = FALSE
    /\ stack = <<>>
    /\ hist = HistInit
    /\ drv = DrvIdle
    /\ ctx = CtxInit

SpecCompiledOut == InitCompiledOut /\ [][Next]_vars

\* ------------------------------------------------ exhaustive-injection loop
\*    uint64_t i = 0;
\*    while (true) {
\*        try {
\*            local_failure_injector().fail_after(i++);
\*            code_under_test();                 (N allocation points)
\*            local_failure_injector().cancel();
\*            break;
\*        } catch (const std::bad_alloc&) { }
\*    }
InitLoop ==
    /\ \E prior \in 0 .. MaxPrior, f \in BOOLEAN :
        inj = [InjectorInit EXCEPT !.alloc_count = prior, !.failed = f]
    /\ enabled = TRUE
    /\ stack = <<>>
    /\ hist = HistInit
    /\ ctx = CtxInit
    /\ \E n \in 0 .. MaxPoints :
        drv = [pc |-> "arm", i |-> 0, N |-> n, pos |-> 0,
               hits |-> [p \in 1 .. n |-> 0]]

LoopFailAfter ==
    /\ drv.pc = "arm"
    /\ inj' = fail_after(inj, drv.i % Modulus)
    /\ drv' = [drv EXCEPT !.pc = "run", !.i = @ + 1, !.pos = 0]
    /\ UNCHANGED <<ctx, enabled, stack, hist>>

\* the next allocation point of code_under_test(); a std::bad_alloc thrown
\* by the default callback lands in the catch clause of the loop
LoopAllocPoint ==
    /\ drv.pc = "run"
    /\ drv.pos < drv.N
    /\ IF invokes_callback(inj)
       THEN /\ inj' = on_alloc_point(inj, TRUE)
            /\ drv' = [drv EXCEPT !.pc = "arm",
                                  !.hits[drv.pos + 1] = @ + 1]
       ELSE /\ inj' = on_alloc_point(inj, FALSE)
            /\ drv' = [drv EXCEPT !.pos = @ + 1]
    /\ UNCHANGED <<ctx, enabled, stack, hist>>

LoopCancel ==
    /\ drv.pc = "run"
    /\ drv.pos = drv.N
    /\ inj' = cancel(inj)
    /\ drv' = [drv EXCEPT !.pc = "done"]
    /\ UNCHANGED <<ctx, enabled, stack, hist>>

NextLoop ==
    \/ LoopFailAfter
    \/ LoopAllocPoint
    \/ LoopCancel

\* the loop is straight-line code of one thread: it keeps running
SpecLoop == InitLoop /\ [][NextLoop]_vars /\ WF_vars(NextLoop)

\* ------------------------------------------- two threads, two injectors
\* Each thread calls the injector through local_failure_injector() and
\* the hook and guards through the free function and disable_failure_guard,
\* which use local_failure_injector() too.  The callbacks here are the
\* ones that leave on_alloc_point() at once.
CtxCounts == {0, 1, UINT64_MAX}

CtxCall(name, t, s, hit) ==
    ctx' = [ctx EXCEPT !.inj[local_failure_injector(t)] = s,
                       !.op = name, !.by = t, !.hit = hit]

CtxOnAllocPoint ==
    /\ \E t \in Threads :
        LET i == local_failure_injector(t)
            s == ctx.inj[i]
        IN  /\ s.alloc_count < MaxCtxAllocCount
            /\ CtxCall("on_alloc_point", t,
                       free_on_alloc_point(
                           s, s.on_alloc_failure = "bad_alloc", enabled),
                       IF invokes_callback(s) THEN i ELSE "none")
    /\ UNCHANGED <<inj, enabled, stack, hist, drv>>

CtxFailAfter ==
    /\ \E t \in Threads, count \in CtxCounts :
        CtxCall("fail_after", t,
                fail_after(ctx.inj[local_failure_injector(t)], count),
                "none")
    /\ UNCHANGED <<inj, enabled, stack, hist, drv>>

CtxCancel ==
    /\ \E t \in Threads :
        CtxCall("cancel", t, cancel(ctx.inj[local_failure_injector(t)]),
                "none")
    /\ UNCHANGED <<inj, enabled, stack, hist, drv>>

CtxSetAllocFailureCallback ==
    /\ \E t \in Threads, cb \in {"bad_alloc", "recorder"} :
        CtxCall("set_alloc_failure_callback", t,
                set_alloc_failure_callback(
                    ctx.inj[local_failure_injector(t)], cb),
                "none")
    /\ UNCHANGED <<inj, enabled, stack, hist, drv>>

CtxGuardAcquire ==
    /\ \E t \in Threads :
        /\ ctx.guards[t] < MaxDepth
        /\ ctx' = [ctx EXCEPT
                     !.inj[local_failure_injector(t)] = guard_ctor(@, enabled),
                     !.guards[t] = @ + 1,
                     !.op = "guard_acquire", !.by = t, !.hit = "none"]
    /\ UNCHANGED <<inj, enabled, stack, hist, drv>>

CtxGuardRelease ==
    /\ \E t \in Threads :
        /\ ctx.guards[t] > 0
        /\ ctx' = [ctx EXCEPT
                     !.inj[local_failure_injector(t)] = guard_dtor(@, enabled),
                     !.guards[t] = @ - 1,
                     !.op = "guard_release", !.by = t, !.hit = "none"]
    /\ UNCHANGED <<inj, enabled, stack, hist, drv>>

NextContexts ==
    \/ CtxOnAllocPoint
    \/ CtxFailAfter
    \/ CtxCancel
    \/ CtxSetAllocFailureCallback
    \/ CtxGuardAcquire
    \/ CtxGuardRelease

SpecContexts == Init /\ [][NextContexts]_vars

\* ------------------------------------------------------------------- claims

\* C1: after fail_after(k), with no cancel() since, the callback has been
\* invoked once if more than k non-suppressed on_alloc_point() calls were
\* made since the arming, and not at all otherwise.
FailsOnCallAfterCount ==
    (hist.armed /\ ~hist.cancelled)
        => hist.fires = (IF hist.calls > hist.k THEN 1 ELSE 0)

\* C1 restricted to armings whose sum _alloc_count + count fits in the
\* counter and that are not made from inside a running callback (the two
\* ways in which the code departs from C1).
FailsOnCallAfterCountNoWrap ==
    (hist.armed /\ ~hist.cancelled /\ ~hist.wrapped /\ ~hist.inner)
        => hist.fires = (IF hist.calls > hist.k THEN 1 ELSE 0)

\* C2: the exhaustive-injection loop terminates, after at most N + 1
\* armings, no allocation point fails in more than one run, and when the
\* loop is done every allocation point 0..N-1 has failed in exactly one run.
LoopTerminatesEachPointOnce ==
    /\ <>(drv.pc = "done")
    /\ [](drv.i <= drv.N + 1)
    /\ [](\A p \in 1 .. drv.N : drv.hits[p] <= 1)
    /\ [](drv.pc = "done" => \A p \in 1 .. drv.N : drv.hits[p] = 1)

LoopDoneWitness ==
    drv.pc = "done" /\ drv.N = MaxPoints /\ drv.i = drv.N + 1

\* C3: an on_alloc_point() call made while _suppressed is nonzero leaves
\* the injector unchanged and does not invoke the failure callback.
SuppressedHookChangesNothing ==
    [][(hist'.op = "on_alloc_point" /\ inj.suppressed # 0)
          => (inj' = inj /\ ~hist'.fired)]_vars

SuppressedDueHookWitness ==
    /\ hist.op = "on_alloc_point"
    /\ inj.suppressed # 0
    /\ inj.alloc_count >= inj.fail_at
    /\ hist.supp

\* C4: after fail_after(k) and suppressed hook calls in between, the
\* callback is invoked on the (k+1)-th non-suppressed call and not before.
SuppressedCallsDoNotShiftSchedule ==
    (hist.armed /\ ~hist.cancelled /\ hist.supp)
        => hist.fires = (IF hist.calls > hist.k THEN 1 ELSE 0)

\* C5: in a build with injection enabled, _suppressed equals the number of
\* disable_failure_guard objects alive, however their scopes were left.
GuardDepthMatchesLiveGuards ==
    enabled => inj.suppressed = GuardsAlive

OneOfTwoGuardsReleasedWitness ==
    /\ hist.op \in {"guard_release", "throw"}
    /\ GuardsAlive = 1
    /\ inj.suppressed = 1

\* C6: once cancel() has been called and fail_after() has not been called
\* since, no on_alloc_point() call invokes the callback or changes failed.
NoFailureAfterCancel ==
    [][(hist.cancelled /\ hist'.op = "on_alloc_point")
          => (~hist'.fired /\ inj'.failed = inj.failed)]_vars

CancelledScheduleWitness ==
    /\ hist.op = "on_alloc_point"
    /\ hist.cancelled
    /\ hist.armed
    /\ ~hist.wrapped
    /\ hist.calls > hist.k
    /\ hist.fires = 0

\* C7: failed() is true iff the callback was invoked since the most recent
\* fail_after() (or since construction), and only fail_after() clears it.
FailedIffTriggeredSinceArming ==
    /\ [](failed(inj) <=> hist.fires > 0)
    /\ [][(failed(inj) /\ hist'.op # "fail_after") => failed(inj')]_vars

FailedSurvivesCancelWitness ==
    failed(inj) /\ hist.op = "cancel" /\ hist.fires = 1

\* C8: a completed on_alloc_point() call that invoked the failure callback
\* leaves alloc_count() as it was before the call.
TriggeringCallNotCounted ==
    [][(hist'.op = "on_alloc_point" /\ hist'.fired
            /\ hist'.exit # "in_callback")
          => alloc_count(inj') = alloc_count(inj)]_vars

\* C9 as stated: every completed on_alloc_point() call made with
\* _suppressed = 0 increases alloc_count() by exactly one.
EveryActiveCallCounted ==
    [][(hist'.op = "on_alloc_point" /\ inj.suppressed = 0
            /\ hist'.exit # "in_callback")
          => alloc_count(inj') = alloc_count(inj) + 1]_vars

\* C9 as amended: every on_alloc_point() call made with _suppressed = 0
\* that does not invoke the failure callback increases alloc_count() by
\* exactly one, and no call increases it by more than one.
EveryNonFailingActiveCallCounted ==
    [][(hist'.op = "on_alloc_point")
          => /\ (inj.suppressed = 0 /\ ~hist'.fired)
                    => alloc_count(inj') = alloc_count(inj) + 1
             /\ alloc_count(inj') \in
                    {alloc_count(inj), alloc_count(inj) + 1}]_vars

CountedCallWitness ==
    /\ hist.op = "on_alloc_point"
    /\ ~hist.fired
    /\ hist.calls >= 1
    /\ alloc_count(inj) >= 2

\* C10: the failure callback is invoked at most once between two
\* fail_after() calls (and at most once before the first).
AtMostOneFailurePerArming ==
    hist.fires <= 1

CallAfterFailureWitness ==
    /\ hist.op = "on_alloc_point"
    /\ ~hist.fired
    /\ hist.fires = 1
    /\ hist.calls >= 2
    /\ inj.suppressed = 0

\* C11: with the recorder callback installed, the hook call that reaches
\* the threshold invokes the callback once, returns normally to its
\* caller with failed() true, and leaves the injector disarmed, so that
\* no later call invokes the recorder before the next fail_after().
RecorderRunsOnceAndReturns ==
    /\ [][(hist'.op = "on_alloc_point" /\ invokes_callback(inj)
              /\ inj.on_alloc_failure = "recorder")
            => /\ hist'.fired
               /\ hist'.fires = hist.fires + 1
               /\ hist'.exit = "return"
               /\ failed(inj')
               /\ ~invokes_callback(inj')]_vars
    /\ [](hist.fires <= 1)

RecorderRanWitness ==
    /\ hist.op = "on_alloc_point"
    /\ ~hist.fired
    /\ inj.on_alloc_failure = "recorder"
    /\ hist.exit = "return"
    /\ hist.fires = 1
    /\ hist.calls = hist.k + 2
    /\ hist.armed /\ ~hist.wrapped /\ ~hist.inner /\ ~hist.cancelled
    /\ failed(inj)

\* C13: cancel() changes nothing but _fail_at, and a second cancel()
\* changes nothing at all.
CancelIdempotentScheduleOnly ==
    [][hist'.op = "cancel"
          => /\ inj' = [inj EXCEPT !.fail_at = UINT64_MAX]
             /\ cancel(inj') = inj']_vars

CancelKeepsFailedWitness ==
    /\ hist.op = "cancel"
    /\ failed(inj)
    /\ alloc_count(inj) >= 1
    /\ inj.suppressed >= 1
    /\ inj.on_alloc_failure # "bad_alloc"

\* C14: no step makes alloc_count() smaller.
AllocCountNeverDecreases ==
    [][alloc_count(inj') >= alloc_count(inj)]_vars

AllocCountAdvancedWitness ==
    /\ alloc_count(inj) = MaxAllocCount
    /\ hist.op = "fail_after"
    /\ hist.wrapped

\* C18: failed() implies that the injector is disarmed.
FailedImpliesDisarmed ==
    failed(inj) => inj.fail_at = UINT64_MAX

FailedDisarmedWitness ==
    /\ failed(inj)
    /\ hist.op = "on_alloc_point"
    /\ hist.fired
    /\ hist.armed
    /\ hist.k < UINT64_MAX

\* C19: _alloc_count <= _fail_at in every state.
AllocCountAtMostFailAt ==
    inj.alloc_count <= inj.fail_at

\* C20: when a custom callback gets control the injector has failed() true
\* and is disarmed; a non-suppressed on_alloc_point() call made from inside
\* the callback, with no fail_after() since the failure, does not invoke
\* the callback and is counted.
CallbackStartsDisarmed ==
    /\ [][hist'.exit = "in_callback"
            => (failed(inj') /\ inj'.fail_at = UINT64_MAX)]_vars
    /\ [][(hist'.op = "on_alloc_point" /\ InCallback
              /\ inj.suppressed = 0 /\ hist.fires >= 1)
            => /\ ~hist'.fired
               /\ alloc_count(inj') = alloc_count(inj) + 1]_vars

HookInsideCallbackWitness ==
    /\ hist.op = "on_alloc_point"
    /\ ~hist.fired
    /\ InCallback
    /\ inj.suppressed = 0
    /\ hist.fires = 1
    /\ hist.calls >= 2

\* C12: after a fail_after() that replaced a schedule which had not fired,
\* failed() is false and the callback is invoked on the (b+1)-th
\* non-suppressed call after it, b its argument, and on no other call.
RearmingDiscardsSchedule ==
    (hist.rearmed /\ ~hist.cancelled)
        => /\ hist.fires = (IF hist.calls > hist.k THEN 1 ELSE 0)
           /\ (hist.op = "fail_after" => ~failed(inj))

\* C15: set_alloc_failure_callback(cb) changes only _on_alloc_failure, and
\* a failure that triggers afterwards runs the callback installed last.
SetCallbackReplacesOnlyCallback ==
    /\ [][hist'.op = "set_alloc_failure_callback"
            => inj' = [inj EXCEPT !.on_alloc_failure = hist'.installed]]_vars
    /\ [][(hist'.op = "on_alloc_point" /\ hist'.fired)
            => hist'.exit = ExitOf(hist.installed)]_vars

CallbackReplacedWhileArmedWitness ==
    /\ hist.op = "set_alloc_failure_callback"
    /\ hist.installed = "recorder"
    /\ hist.armed /\ ~hist.cancelled /\ ~hist.wrapped
    /\ hist.calls >= 1
    /\ hist.fires = 0
    /\ inj.fail_at = alloc_count(inj)

\* C16: with the feature compiled out the free function on_alloc_point()
\* changes nothing and invokes no callback, guards leave _suppressed at
\* zero, and fail_after() and cancel() set the schedule as they do in an
\* enabled build.
CompiledOutHookAndGuardAreNoOps ==
    /\ [](inj.suppressed = 0)
    /\ [][hist'.via = "free" => (inj' = inj /\ ~hist'.fired)]_vars
    /\ [][hist'.op \in {"guard_acquire", "guard_release", "throw"}
            => inj' = inj]_vars
    /\ [][hist'.op = "fail_after"
            => /\ inj'.fail_at = (alloc_count(inj) + hist'.k) % Modulus
               /\ ~failed(inj')
               /\ alloc_count(inj') = alloc_count(inj)]_vars
    /\ [][hist'.op = "cancel"
            => inj' = [inj EXCEPT !.fail_at = UINT64_MAX]]_vars

CompiledOutDueHookWitness ==
    /\ ~enabled
    /\ hist.via = "free"
    /\ hist.armed /\ hist.k = 0 /\ ~hist.cancelled
    /\ inj.fail_at = alloc_count(inj)
    /\ GuardsAlive = 0
    /\ ~failed(inj)

\* C17: a call made by one thread leaves the injector of every other
\* thread unchanged and invokes no callback but that of the caller's own
\* injector; each injector's _suppressed counts its own thread's guards.
ContextsAreIndependent ==
    /\ [][\A t \in Threads :
            t # ctx'.by => ctx'.inj[t] = ctx.inj[t]]_vars
    /\ [](ctx.hit \in {"none", ctx.by})
    /\ [](\A t \in Threads : ctx.inj[t].suppressed = ctx.guards[t])

OtherContextUntouchedWitness ==
    /\ ctx.by = "t2"
    /\ ctx.hit = "t2"
    /\ failed(ctx.inj["t2"])
    /\ ~failed(ctx.inj["t1"])
    /\ ctx.inj["t1"].fail_at = alloc_count(ctx.inj["t1"])
    /\ ctx.inj["t1"].suppressed = 0
    /\ alloc_count(ctx.inj["t1"]) >= 1

====
